---- MODULE Spec2Model ----
(***************************************************************************)
(* A model of geo::spatial_index::KdTree (kdtree.rs): the recursive build  *)
(* Node::new with best_partitioning / partition, and the ray query         *)
(* Node::intersection, over spheres (primitive/sphere.rs).                 *)
(*                                                                         *)
(* f64 values that the query can make non-finite (tsplit, tmin, tmax, t)   *)
(* are modelled as IEEE values: a finite number, +inf, -inf or NaN, with   *)
(* the IEEE comparison rules (every comparison with NaN is false).         *)
(* Coordinates are integers, rays are axis aligned with unit direction and *)
(* radii are 0 or 1, so that every finite f64 the code computes is an      *)
(* integer and is computed exactly.                                        *)
(***************************************************************************)
EXTENDS Integers, Sequences, FiniteSets, TLC

VARIABLES
    shapes,   \* the Vec<T> handed to KdTree::new (spheres)
    pc,       \* "start" | "building" | "built" | "overflow" | "panic" | "querying" | "done"
    stack,    \* pending Node::new calls, innermost (next to run) first
    tree,     \* the nodes built so far: path from the root |-> node
    ray,      \* the ray of the current query
    todo,     \* pending Node::intersection calls: the head runs next, the rest
              \* are the or_else alternatives of its ancestors
    calls,    \* the Node::intersection calls made so far by the current query
    cmps,     \* the hit parameters handed to min_by's comparator so far
    result    \* the query's Option<(&T, f64)>

vars == <<shapes, pc, stack, tree, ray, todo, calls, cmps, result>>

-----------------------------------------------------------------------------
(* Bounds of the model.                                                    *)

\* most shapes in a scene
MaxShapes == 10
\* deepest Node::new recursion before the call stack is exhausted
MaxDepth == 4

\* kdtree.rs:10
LEAF_SIZE == 8

-----------------------------------------------------------------------------
(* Option<T>                                                               *)

None == <<>>
Some(x) == <<x>>

-----------------------------------------------------------------------------
(* f64: finite values, +inf, -inf, NaN and their comparisons.              *)

F(n) == [k |-> "fin", v |-> n]
Inf == [k |-> "inf", v |-> 1]
NegInf == [k |-> "inf", v |-> -1]
NaN == [k |-> "nan", v |-> 0]

\* the position of a non-NaN value on the extended number line, as a pair
\* compared lexicographically
Rank(a) == IF a.k = "inf" THEN a.v ELSE 0

FLt(a, b) ==
    /\ a.k # "nan"
    /\ b.k # "nan"
    /\ \/ Rank(a) < Rank(b)
       \/ Rank(a) = Rank(b) /\ a.k = "fin" /\ b.k = "fin" /\ a.v < b.v

FEq(a, b) == a.k # "nan" /\ b.k # "nan" /\ a = b

FLe(a, b) == FLt(a, b) \/ FEq(a, b)
FGt(a, b) == FLt(b, a)
FGe(a, b) == FLe(b, a)

\* n / d for finite integers n and d in {-1, 0, 1}, the zero being +0.0:
\* x/0 is +inf or -inf by the sign of x, and 0/0 is NaN
FDiv(n, d) ==
    IF d # 0 THEN F(n * d)
    ELSE IF n > 0 THEN Inf
    ELSE IF n < 0 THEN NegInf
    ELSE NaN

\* f64::partial_cmp: None when either side is NaN
PartialCmp(a, b) ==
    IF a.k = "nan" \/ b.k = "nan" THEN None
    ELSE IF FLt(a, b) THEN Some("Less")
    ELSE IF FGt(a, b) THEN Some("Greater")
    ELSE Some("Equal")

-----------------------------------------------------------------------------
(* Vec3, Axis, Aabb                                                        *)

AxisOrder == <<"X", "Y", "Z">>
Axis == {"X", "Y", "Z"}

V3(x, y, z) == [X |-> x, Y |-> y, Z |-> z]
Sub(a, b) == [ax \in Axis |-> a[ax] - b[ax]]
Dot(a, b) == a.X * b.X + a.Y * b.Y + a.Z * b.Z

\* the square root of a perfect square (the only discriminants the scenes
\* and rays of this model produce)
ISqrt(n) == CHOOSE r \in 0..n : r * r <= n /\ n < (r + 1) * (r + 1)

\* Aabb::center
Center(bbox) == [ax \in Axis |-> (bbox.min[ax] + bbox.max[ax]) \div 2]

-----------------------------------------------------------------------------
(* primitive/sphere.rs                                                     *)

\* bounding_box(center, radius)
bounding_box(center, radius) ==
    [min |-> [ax \in Axis |-> center[ax] - radius],
     max |-> [ax \in Axis |-> center[ax] + radius]]

\* t > 1e-9, for a t that is an integer
GtEps(t) == t > 0

\* ray_intersection(center, radius, ray): the parameter of the nearest
\* intersection in front of the origin
ray_intersection(center, radius, r) ==
    LET oc == Sub(r.origin, center)
        a == Dot(r.dir, r.dir)
        b == Dot(oc, r.dir)
        c == Dot(oc, oc) - radius * radius
        discr == b * b - a * c
    IN  IF discr < 0 THEN None
        ELSE LET t0 == (-b - ISqrt(discr)) \div a
                 t1 == (-b + ISqrt(discr)) \div a
             IN  IF GtEps(t0) THEN Some(F(t0))
                 ELSE IF GtEps(t1) THEN Some(F(t1))
                 ELSE None

\* Shape for a sphere: bbox() and intersection(ray)
ShapeBbox(s) == bounding_box(s.center, s.radius)
ShapeIntersection(s, r) == ray_intersection(s.center, s.radius, r)

-----------------------------------------------------------------------------
(* kdtree.rs: building                                                     *)

\* partition_bbox with strict comparisons: a box that only touches the plane
\* is on neither side
partition_bbox_strict(bbox, axis, c) == <<bbox.min[axis] < c, bbox.max[axis] > c>>

\* partition_bbox(bbox, axis, c): <<on the left, on the right>>
partition_bbox(bbox, axis, c) == <<bbox.min[axis] <= c, bbox.max[axis] >= c>>

\* the closure partion_score of best_partitioning
partion_score(bboxes, axis, value) ==
    LET lefties == Cardinality({i \in DOMAIN bboxes : partition_bbox(bboxes[i], axis, value)[1]})
        rightists == Cardinality({i \in DOMAIN bboxes : partition_bbox(bboxes[i], axis, value)[2]})
    IN  IF lefties >= rightists THEN lefties ELSE rightists

\* util::ksmallest_by(centers, p, by axis): the element at index p (from 0)
\* of the centers ordered along the axis, None when there is none
ksmallest_by(centers, p, axis) ==
    IF p >= Len(centers) THEN None
    ELSE Some(centers[CHOOSE i \in DOMAIN centers :
            /\ Cardinality({j \in DOMAIN centers : centers[j][axis] < centers[i][axis]}) <= p
            /\ p < Cardinality({j \in DOMAIN centers : centers[j][axis] <= centers[i][axis]})])

\* min_by that keeps the last of the equally minimum elements
RECURSIVE MinByFromLast(_, _, _)
MinByFromLast(cands, i, best) ==
    IF i > Len(cands) THEN best
    ELSE MinByFromLast(cands, i + 1, IF cands[i][3] <= best[3] THEN cands[i] ELSE best)

\* Iterator::min_by over candidates <<axis, value, score>> compared by score:
\* the first of the equally minimum elements
RECURSIVE MinByFrom(_, _, _)
MinByFrom(cands, i, best) ==
    IF i > Len(cands) THEN best
    ELSE MinByFrom(cands, i + 1, IF cands[i][3] < best[3] THEN cands[i] ELSE best)

MinByScore(cands) == MinByFrom(cands, 2, cands[1])

\* the candidate of one axis in best_partitioning: the median center along
\* the axis and its score
AxisCandidate(bboxes, axis) ==
    LET centers == [i \in DOMAIN bboxes |-> Center(bboxes[i])]
        p == Len(centers) \div 2
        mid == ksmallest_by(centers, p, axis)[1]
        value == mid[axis]
    IN  <<axis, value, partion_score(bboxes, axis, value)>>

\* best_partitioning(bboxes): <<split_axis, split_value>>; it panics (the
\* unwrap of ksmallest_by's None) on no boxes
BestPartitioningPanics(bboxes) == Len(bboxes) = 0

best_partitioning(bboxes) ==
    LET best == MinByScore([k \in 1..3 |-> AxisCandidate(bboxes, AxisOrder[k])])
    IN  <<best[1], best[2]>>

\* partition walking the shapes from the front: each side keeps the order
\* of the list
RECURSIVE PartitionFromFront(_, _, _, _, _, _, _)
PartitionFromFront(shs, bbs, n, axis, value, left, right) ==
    IF n = 0 THEN <<left, right>>
    ELSE LET lr == partition_bbox(bbs[n], axis, value)
             left2 == IF lr[1]
                      THEN [shapes |-> <<shs[n]>> \o left.shapes,
                            bboxes |-> <<bbs[n]>> \o left.bboxes]
                      ELSE left
             right2 == IF lr[2]
                       THEN [shapes |-> <<shs[n]>> \o right.shapes,
                             bboxes |-> <<bbs[n]>> \o right.bboxes]
                       ELSE right
         IN  PartitionFromFront(shs, bbs, n - 1, axis, value, left2, right2)

\* partition(shapes, bboxes, split_axis, split_value): the shapes are popped
\* from the back, so each side receives its shapes in reverse order.
\* A side is [shapes |-> ..., bboxes |-> ...]; the result is <<left, right>>.
RECURSIVE PartitionFrom(_, _, _, _, _, _, _)
PartitionFrom(shs, bbs, n, axis, value, left, right) ==
    IF n = 0 THEN <<left, right>>
    ELSE LET lr == partition_bbox(bbs[n], axis, value)
             left2 == IF lr[1]
                      THEN [shapes |-> Append(left.shapes, shs[n]),
                            bboxes |-> Append(left.bboxes, bbs[n])]
                      ELSE left
             right2 == IF lr[2]
                       THEN [shapes |-> Append(right.shapes, shs[n]),
                             bboxes |-> Append(right.bboxes, bbs[n])]
                       ELSE right
         IN  PartitionFrom(shs, bbs, n - 1, axis, value, left2, right2)

partition(shs, bbs, split_axis, split_value) ==
    PartitionFrom(shs, bbs, Len(shs), split_axis, split_value,
                  [shapes |-> <<>>, bboxes |-> <<>>],
                  [shapes |-> <<>>, bboxes |-> <<>>])

\* the Leaf arm taken for one shape more than LEAF_SIZE
IsLeafCaseOffByOne(shs) == Len(shs) <= LEAF_SIZE + 1

\* the Leaf arm not taken for an empty list
IsLeafCaseNonEmpty(shs) == 0 < Len(shs) /\ Len(shs) <= LEAF_SIZE

\* Node::new takes the Leaf arm
IsLeafCase(shs) == Len(shs) <= LEAF_SIZE

\* the two variants of Node; a shape reference (Arc<T>) is the index of the
\* shape in the input Vec
Leaf(data) == [kind |-> "Leaf", data |-> data, split_axis |-> "X", split_value |-> 0]
Branch(axis, value) == [kind |-> "Branch", data |-> <<>>, split_axis |-> axis, split_value |-> value]

\* a Node::new call: the path of the node it builds and its arguments
NewCall(path, shs, bbs) == [path |-> path, shapes |-> shs, bboxes |-> bbs]

\* KdTree::new(shapes): the boxes are computed once and the root is built
KdTreeNew ==
    /\ pc = "start"
    /\ pc' = "building"
    /\ stack' = <<NewCall(<<>>, [i \in DOMAIN shapes |-> i],
                          [i \in DOMAIN shapes |-> ShapeBbox(shapes[i])])>>
    /\ UNCHANGED <<shapes, tree, ray, todo, calls, cmps, result>>

\* one call of Node::new: a Leaf, or a Branch whose children are built next,
\* the left one first. The recursion has no bound of its own: past MaxDepth
\* nested calls the call stack is exhausted and the process aborts.
NodeNew ==
    /\ pc = "building"
    /\ stack # <<>>
    /\ LET call == Head(stack) IN
       IF IsLeafCase(call.shapes) THEN
            /\ tree' = tree @@ (call.path :> Leaf(call.shapes))
            /\ stack' = Tail(stack)
            /\ pc' = IF Tail(stack) = <<>> THEN "built" ELSE "building"
       ELSE IF BestPartitioningPanics(call.bboxes) THEN
            /\ pc' = "panic"
            /\ UNCHANGED <<stack, tree>>
       ELSE IF Len(call.path) >= MaxDepth THEN
            /\ pc' = "overflow"
            /\ UNCHANGED <<stack, tree>>
       ELSE LET split == best_partitioning(call.bboxes)
                lr == partition(call.shapes, call.bboxes, split[1], split[2])
            IN  /\ tree' = tree @@ (call.path :> Branch(split[1], split[2]))
                /\ stack' = <<NewCall(Append(call.path, "L"), lr[1].shapes, lr[1].bboxes),
                              NewCall(Append(call.path, "R"), lr[2].shapes, lr[2].bboxes)>>
                            \o Tail(stack)
                /\ pc' = "building"
    /\ UNCHANGED <<shapes, ray, todo, calls, cmps, result>>

-----------------------------------------------------------------------------
(* kdtree.rs: querying                                                     *)

\* a Node::intersection call: the node and the interval
IntCall(path, tmin, tmax) == [path |-> path, tmin |-> tmin, tmax |-> tmax]

\* a filter that forgets the upper end of the interval
InIntervalNoUpper(t, tmin, tmax) == FLe(tmin, t)

\* the filter of the Leaf arm: tmin <= t && tmax >= t
InInterval(t, tmin, tmax) == FLe(tmin, t) /\ FGe(tmax, t)

\* the Leaf arm up to the filter: the hits (shape, t) of the leaf's shapes,
\* in the leaf's order, whose t passes tmin <= t && tmax >= t
RECURSIVE LeafHitsFrom(_, _, _, _, _)
LeafHitsFrom(data, i, r, tmin, tmax) ==
    IF i > Len(data) THEN <<>>
    ELSE LET hit == ShapeIntersection(shapes[data[i]], r)
             rest == LeafHitsFrom(data, i + 1, r, tmin, tmax)
         IN  IF hit # None /\ InInterval(hit[1], tmin, tmax)
             THEN <<[shape |-> data[i], t |-> hit[1]]>> \o rest
             ELSE rest

LeafHits(data, r, tmin, tmax) == LeafHitsFrom(data, 1, r, tmin, tmax)

\* min_by(|a, b| a.t.partial_cmp(b.t).unwrap()): the first of the equally
\* minimum hits; the unwrap panics when partial_cmp gives None
RECURSIVE MinHitFrom(_, _, _)
MinHitFrom(hits, i, best) ==
    IF i > Len(hits) THEN best
    ELSE MinHitFrom(hits, i + 1,
                    IF PartialCmp(hits[i].t, best.t) = Some("Less") THEN hits[i] ELSE best)

MinHit(hits) == IF hits = <<>> THEN None ELSE Some(MinHitFrom(hits, 2, hits[1]))

\* the values the comparator of min_by is applied to, each with the interval
\* of the call
Compared(hits, tmin, tmax) ==
    IF Len(hits) >= 2
    THEN {[t |-> hits[i].t, tmin |-> tmin, tmax |-> tmax] : i \in DOMAIN hits}
    ELSE {}

\* the Branch arm: tsplit, the child entered first and the calls it makes,
\* in order; the second of two is made only when the first finds nothing
TSplit(node, r) == FDiv(node.split_value - r.origin[node.split_axis], r.dir[node.split_axis])

\* left_first with the comparisons turned around
LeftFirstSwapped(node, r) ==
    \/ r.origin[node.split_axis] > node.split_value
    \/ r.origin[node.split_axis] = node.split_value /\ r.dir[node.split_axis] >= 0

LeftFirst(node, r) ==
    \/ r.origin[node.split_axis] < node.split_value
    \/ r.origin[node.split_axis] = node.split_value /\ r.dir[node.split_axis] <= 0

FirstChild(path, node, r) == Append(path, IF LeftFirst(node, r) THEN "L" ELSE "R")
SecondChild(path, node, r) == Append(path, IF LeftFirst(node, r) THEN "R" ELSE "L")

BranchCalls(path, node, r, tmin, tmax) ==
    LET tsplit == TSplit(node, r)
        first == FirstChild(path, node, r)
        second == SecondChild(path, node, r)
    IN  IF FGt(tsplit, tmax) \/ FLe(tsplit, F(0)) THEN <<IntCall(first, tmin, tmax)>>
        ELSE IF FLt(tsplit, tmin) THEN <<IntCall(second, tmin, tmax)>>
        ELSE <<IntCall(first, tmin, tsplit), IntCall(second, tsplit, tmax)>>

\* KdTree::intersection(ray): the query over [0, +inf] from the root
KdTreeIntersection(r) ==
    /\ pc = "built"
    /\ pc' = "querying"
    /\ ray' = r
    /\ todo' = <<IntCall(<<>>, F(0), Inf)>>
    /\ calls' = <<>>
    /\ cmps' = {}
    /\ result' = None
    /\ UNCHANGED <<shapes, stack, tree>>

\* one call of Node::intersection
NodeIntersection ==
    /\ pc = "querying"
    /\ todo # <<>>
    /\ LET call == Head(todo)
           node == tree[call.path]
       IN  /\ calls' = Append(calls, call)
           /\ IF node.kind = "Leaf" THEN
                 LET hits == LeafHits(node.data, ray, call.tmin, call.tmax)
                     found == MinHit(hits)
                     compared == Compared(hits, call.tmin, call.tmax)
                 IN  /\ cmps' = cmps \cup compared
                     /\ IF \E c \in compared : c.t = NaN THEN
                            /\ pc' = "panic"
                            /\ UNCHANGED <<todo, result>>
                        ELSE IF found # None \/ Tail(todo) = <<>> THEN
                            /\ result' = found
                            /\ todo' = <<>>
                            /\ pc' = "done"
                        ELSE
                            /\ todo' = Tail(todo)
                            /\ UNCHANGED <<pc, result>>
              ELSE
                 /\ todo' = BranchCalls(call.path, node, ray, call.tmin, call.tmax) \o Tail(todo)
                 /\ UNCHANGED <<pc, cmps, result>>
    /\ UNCHANGED <<shapes, stack, tree, ray>>

-----------------------------------------------------------------------------
(* Scenes and rays.                                                        *)

Sphere(center, radius) == [center |-> center, radius |-> radius]

\* the shape a scene may repeat: a point at the origin
Filler == Sphere(V3(0, 0, 0), 0)

\* the shapes a scene may hold once each, in this order
Extras ==
    << Sphere(V3(-1, 0, 0), 0),
       Sphere(V3(1, -1, 0), 0),
       Sphere(V3(0, -1, -1), 0),
       Sphere(V3(0, 1, 0), 0),
       Sphere(V3(0, 0, 0), 1),
       Sphere(V3(0, 1, 1), 0) >>

RECURSIVE SelectExtras(_, _)
SelectExtras(S, i) ==
    IF i > Len(Extras) THEN <<>>
    ELSE (IF i \in S THEN <<Extras[i]>> ELSE <<>>) \o SelectExtras(S, i + 1)

\* a scene: some of the extras, then copies of the filler
Scenes ==
    { SelectExtras(S, 1) \o [i \in 1..k |-> Filler] :
        <<S, k>> \in { sk \in (SUBSET DOMAIN Extras) \X (0..MaxShapes) :
                          Cardinality(sk[1]) + sk[2] <= MaxShapes } }

\* rays: axis aligned, unit direction, from a point of one of the axes
Unit == { d \in [Axis -> {-1, 0, 1}] : Dot(d, d) = 1 }
RayOrigins == { o \in [Axis -> -2..2] : Cardinality({ax \in Axis : o[ax] # 0}) <= 1 }
Rays == { [origin |-> o, dir |-> d] : o \in RayOrigins, d \in Unit }

Init ==
    /\ shapes \in Scenes
    /\ pc = "start"
    /\ stack = <<>>
    /\ tree = <<>>
    /\ ray = [origin |-> V3(0, 0, 0), dir |-> V3(1, 0, 0)]
    /\ todo = <<>>
    /\ calls = <<>>
    /\ cmps = {}
    /\ result = None

Next ==
    \/ KdTreeNew
    \/ NodeNew
    \/ \E r \in Rays : KdTreeIntersection(r)
    \/ NodeIntersection

Spec == Init /\ [][Next]_vars


-----------------------------------------------------------------------------
(* What the claims speak of.                                               *)

Range(seq) == {seq[i] : i \in DOMAIN seq}

\* a valid hit parameter of the public query: t within [0, +inf]
InRange0Inf(t) == FLe(F(0), t) /\ FGe(Inf, t)

\* the brute-force scan: the hits (shape, t) of all the input shapes with a
\* valid t, i.e. one within [0, +inf]
ValidHits(r) ==
    { [shape |-> i, t |-> ShapeIntersection(shapes[i], r)[1]] :
        i \in { j \in DOMAIN shapes :
                  /\ ShapeIntersection(shapes[j], r) # None
                  /\ InRange0Inf(ShapeIntersection(shapes[j], r)[1]) } }

\* the result is what the brute-force scan gives: nothing when no shape has a
\* valid hit, else one of the hits with the minimum t
MatchesBruteForce ==
    IF ValidHits(ray) = {} THEN result = None
    ELSE /\ result # None
         /\ result[1] \in ValidHits(ray)
         /\ \A h \in ValidHits(ray) : FLe(result[1].t, h.t)

\* the leaves and branches built so far
LeafPaths == {p \in DOMAIN tree : tree[p].kind = "Leaf"}
BranchPaths == {p \in DOMAIN tree : tree[p].kind = "Branch"}

\* path p is q or below q
IsPrefix(q, p) == Len(q) <= Len(p) /\ SubSeq(p, 1, Len(q)) = q

\* the shapes referenced by the leaves at or below path q
ShapesUnder(q) == UNION { Range(tree[p].data) : p \in {l \in LeafPaths : IsPrefix(q, l)} }

\* the branches the current query has visited
VisitedBranches == { calls[i].path : i \in DOMAIN calls } \cap BranchPaths

-----------------------------------------------------------------------------
(* C1: once a query on a built tree has returned, its result is the one of  *)
(* a brute-force scan of all the input shapes: no hit exactly when no shape *)
(* has a valid hit, else a shape with the minimum valid t.                  *)
C1_QueryMatchesBruteForce == pc = "done" => MatchesBruteForce

(* C2: KdTree::new always returns: the recursion of Node::new never runs    *)
(* out of stack, whatever the shapes, shapes with identical centers         *)
(* included.                                                                *)
C2_NewTerminates == pc # "overflow"

\* where the recursion is cut off, the call at hand would hand all of its
\* shapes to one child: the child's call has the same boxes and splits the
\* same way, so the recursion of the code has no end there
OverflowIsDivergence ==
    pc = "overflow" =>
        LET call == Head(stack)
            split == best_partitioning(call.bboxes)
            lr == partition(call.shapes, call.bboxes, split[1], split[2])
        IN  \/ Len(lr[1].shapes) = Len(call.shapes)
            \/ Len(lr[2].shapes) = Len(call.shapes)

(* C3: every leaf of the tree holds at most LEAF_SIZE shape references.     *)
C3_LeafSize == \A p \in LeafPaths : Len(tree[p].data) <= LEAF_SIZE

\* a built tree with a branch and a full leaf
C3_Witness ==
    /\ pc = "built"
    /\ BranchPaths # {}
    /\ \E p \in LeafPaths : Len(tree[p].data) = LEAF_SIZE

(* C4: no shape is lost while building: the two sides partition returns    *)
(* hold, together, every shape it was given, and every input shape is       *)
(* referenced by at least one leaf of the built tree.                       *)
C4_PartitionKeepsAll ==
    (pc = "building" /\ pc' = "building" /\ ~IsLeafCase(Head(stack).shapes)) =>
        Range(stack'[1].shapes) \cup Range(stack'[2].shapes) = Range(Head(stack).shapes)

C4_AllInLeaves == pc = "built" => \A i \in DOMAIN shapes : i \in ShapesUnder(<<>>)

C4_NoShapeLost == [][C4_PartitionKeepsAll]_vars /\ []C4_AllInLeaves

\* a built tree with a branch, a shape referenced from one leaf only and a
\* shape referenced from two
C4_Witness ==
    /\ pc = "built"
    /\ BranchPaths # {}
    /\ \E i \in DOMAIN shapes : Cardinality({p \in LeafPaths : i \in Range(tree[p].data)}) = 1
    /\ \E i \in DOMAIN shapes : Cardinality({p \in LeafPaths : i \in Range(tree[p].data)}) = 2

(* C5: a visited branch whose split axis the ray's direction is zero on     *)
(* recurses only into its first child, with its own interval unchanged.     *)
C5_ZeroDirFirstChildOnly ==
    \A i \in DOMAIN calls :
        LET call == calls[i]
            node == tree[call.path]
        IN  (node.kind = "Branch" /\ ray.dir[node.split_axis] = 0) =>
                \A j \in DOMAIN calls :
                    /\ calls[j].path # SecondChild(call.path, node, ray)
                    /\ calls[j].path = FirstChild(call.path, node, ray) =>
                          calls[j].tmin = call.tmin /\ calls[j].tmax = call.tmax

(* C6: a query whose ray has direction zero on the split axis of a branch   *)
(* it visits neither panics nor misses: its result is the brute-force one.  *)
C6_ZeroDirMatchesBruteForce ==
    /\ pc # "panic"
    /\ (pc = "done" /\ \E p \in VisitedBranches : ray.dir[tree[p].split_axis] = 0) =>
          MatchesBruteForce

\* shape i's box spans the split plane of branch p
Straddles(i, p) ==
    LET bbox == ShapeBbox(shapes[i])
    IN  /\ bbox.min[tree[p].split_axis] <= tree[p].split_value
        /\ tree[p].split_value <= bbox.max[tree[p].split_axis]

\* shape i has the nearest valid hit of the ray
IsNearest(i, r) ==
    \E h \in ValidHits(r) : h.shape = i /\ \A g \in ValidHits(r) : FLe(h.t, g.t)

RECURSIVE Insert(_, _)
Insert(x, sorted) ==
    IF sorted = <<>> THEN <<x>>
    ELSE IF x <= Head(sorted) THEN <<x>> \o sorted
    ELSE <<Head(sorted)>> \o Insert(x, Tail(sorted))

RECURSIVE SortNumbers(_)
SortNumbers(seq) == IF seq = <<>> THEN <<>> ELSE Insert(Head(seq), SortNumbers(Tail(seq)))

\* the value at index floor(n/2), from 0, of the box centers sorted along the axis
MedianCenter(bboxes, axis) ==
    SortNumbers([i \in DOMAIN bboxes |-> Center(bboxes[i])[axis]])[(Len(bboxes) \div 2) + 1]

\* max(number of boxes with min <= value, number of boxes with max >= value)
BalanceScore(bboxes, axis, value) ==
    LET l == Cardinality({i \in DOMAIN bboxes : bboxes[i].min[axis] <= value})
        r == Cardinality({i \in DOMAIN bboxes : bboxes[i].max[axis] >= value})
    IN  IF l >= r THEN l ELSE r

AxisScore(bboxes, k) == BalanceScore(bboxes, AxisOrder[k], MedianCenter(bboxes, AxisOrder[k]))

(* C8: for the boxes of every pending Node::new call that has any,          *)
(* best_partitioning returns an axis with its median center, the score of   *)
(* that axis is the lowest of the three, and every earlier axis in the      *)
(* order X, Y, Z scores strictly higher.                                    *)
C8_BestPartitioning ==
    \A c \in DOMAIN stack :
        Len(stack[c].bboxes) > 0 =>
            LET bboxes == stack[c].bboxes
                got == best_partitioning(bboxes)
            IN  \E k \in 1..3 :
                    /\ got = <<AxisOrder[k], MedianCenter(bboxes, AxisOrder[k])>>
                    /\ \A j \in 1..3 : AxisScore(bboxes, k) <= AxisScore(bboxes, j)
                    /\ \A j \in 1..(k - 1) : AxisScore(bboxes, k) < AxisScore(bboxes, j)

\* Node::new is about to split more than LEAF_SIZE shapes, an axis other
\* than X wins, and two axes tie for the lowest score
C8_Witness ==
    /\ pc = "building"
    /\ stack # <<>>
    /\ ~IsLeafCase(Head(stack).shapes)
    /\ best_partitioning(Head(stack).bboxes)[1] = "Y"
    /\ AxisScore(Head(stack).bboxes, 2) = AxisScore(Head(stack).bboxes, 3)

(* C9: the tree built from no shapes is a single empty Leaf, and every      *)
(* query on it returns no hit.                                              *)
C9_EmptyScene ==
    shapes = <<>> =>
        /\ pc \notin {"panic", "overflow"}
        /\ pc \in {"built", "querying", "done"} => tree = (<<>> :> Leaf(<<>>))
        /\ pc = "done" => result = None

C9_Witness == shapes = <<>> /\ pc = "done" /\ calls # <<>>

(* C10: a query never fails: it never panics, every hit parameter handed to *)
(* the comparison of min_by is a number (not NaN) within the call's         *)
(* [tmin, tmax], and the query returns no hit or a hit on an input shape.   *)
C10_QueryNeverFails ==
    /\ pc # "panic"
    /\ \A c \in cmps : c.t.k # "nan" /\ FLe(c.tmin, c.t) /\ FLe(c.t, c.tmax)
    /\ pc = "done" =>
          \/ result = None
          \/ Len(result) = 1 /\ result[1].shape \in DOMAIN shapes /\ result[1].t.k = "fin"

\* a finished query that compared hits in a leaf from which the filter had
\* removed a hit, and that ran a call whose interval has a NaN bound
C10_Witness ==
    /\ pc = "done"
    /\ cmps # {}
    /\ \E i \in DOMAIN calls : calls[i].tmin = NaN \/ calls[i].tmax = NaN
    /\ \E i \in DOMAIN calls :
          /\ tree[calls[i].path].kind = "Leaf"
          /\ \E s \in Range(tree[calls[i].path].data) :
                /\ ShapeIntersection(shapes[s], ray) # None
                /\ ~FLe(ShapeIntersection(shapes[s], ray)[1], calls[i].tmax)

\* the ray crosses the split plane of the node inside the call's interval:
\* tmin <= tsplit <= tmax and tsplit > 0
CrossesInside(call, node) ==
    LET tsplit == FDiv(node.split_value - ray.origin[node.split_axis], ray.dir[node.split_axis])
    IN  FLe(call.tmin, tsplit) /\ FLe(tsplit, call.tmax) /\ FGt(tsplit, F(0))

\* the side of the node the ray starts on: the left one iff the origin is
\* below the split value, or on it with a non-positive direction
NearSide(node) ==
    IF \/ ray.origin[node.split_axis] < node.split_value
       \/ ray.origin[node.split_axis] = node.split_value /\ ray.dir[node.split_axis] <= 0
    THEN "L" ELSE "R"

FarSide(node) == IF NearSide(node) = "L" THEN "R" ELSE "L"

\* the hit the finished query returns was found below path q
FoundUnder(q) ==
    /\ pc = "done"
    /\ result # None
    /\ IsPrefix(q, calls[Len(calls)].path)

(* C11: at a visited branch the ray crosses inside the interval, the child  *)
(* on the origin's side is entered first, over [tmin, tsplit]; when the hit *)
(* returned was found below it, the hit lies within [tmin, tsplit], the     *)
(* other child was never entered, and no shape referenced only from the     *)
(* other child has a hit within [tmin, tmax] with a smaller parameter.      *)
C11_FrontToBack ==
    \A i \in DOMAIN calls :
        LET call == calls[i]
            node == tree[call.path]
            tsplit == FDiv(node.split_value - ray.origin[node.split_axis],
                           ray.dir[node.split_axis])
            first == Append(call.path, NearSide(node))
            second == Append(call.path, FarSide(node))
        IN  (node.kind = "Branch" /\ CrossesInside(call, node)) =>
                /\ i < Len(calls) =>
                      calls[i + 1] = [path |-> first, tmin |-> call.tmin, tmax |-> tsplit]
                /\ FoundUnder(first) =>
                      /\ FLe(call.tmin, result[1].t) /\ FLe(result[1].t, tsplit)
                      /\ \A j \in DOMAIN calls : ~IsPrefix(second, calls[j].path)
                      /\ \A s \in ShapesUnder(second) \ ShapesUnder(first) :
                            LET hit == ShapeIntersection(shapes[s], ray)
                            IN  (hit # None /\ FLe(call.tmin, hit[1]) /\ FLe(hit[1], call.tmax))
                                    => FLe(result[1].t, hit[1])

\* a finished query whose hit was found below the first child of a branch
\* the ray crosses inside the interval, while a shape referenced only from
\* the second child has a later hit within the interval
C11_Witness ==
    \E i \in DOMAIN calls :
        LET call == calls[i]
            node == tree[call.path]
            first == Append(call.path, NearSide(node))
            second == Append(call.path, FarSide(node))
        IN  /\ node.kind = "Branch"
            /\ CrossesInside(call, node)
            /\ FoundUnder(first)
            /\ \E s \in ShapesUnder(second) \ ShapesUnder(first) :
                  LET hit == ShapeIntersection(shapes[s], ray)
                  IN  hit # None /\ FLe(call.tmin, hit[1]) /\ FLe(hit[1], call.tmax)

\* the shapes of the list shs whose box is on the given side of the plane,
\* in the reverse of their order in shs
RECURSIVE ReversedSide(_, _, _, _)
ReversedSide(shs, axis, value, side) ==
    IF shs = <<>> THEN <<>>
    ELSE LET bbox == ShapeBbox(shapes[Head(shs)])
             on == IF side = "L" THEN bbox.min[axis] <= value ELSE bbox.max[axis] >= value
         IN  ReversedSide(Tail(shs), axis, value, side)
                \o (IF on THEN <<Head(shs)>> ELSE <<>>)

\* at most LEAF_SIZE shapes: the built tree is one Leaf with the input shapes,
\* each once, in input order; more: the root is a Branch
C12_Root ==
    /\ (Len(shapes) <= LEAF_SIZE /\ pc \in {"built", "querying", "done"}) =>
          tree = (<<>> :> Leaf([i \in 1..Len(shapes) |-> i]))
    /\ (Len(shapes) > LEAF_SIZE /\ <<>> \in DOMAIN tree) => tree[<<>>].kind = "Branch"
    /\ (Len(shapes) > LEAF_SIZE /\ pc \in {"built", "querying", "done"}) =>
          <<>> \in DOMAIN tree

\* a call of Node::new that branches hands each child the shapes of its side
\* in the reverse of their order in its own list
C12_ChildrenReversed ==
    (pc = "building" /\ pc' = "building" /\ Len(Head(stack).shapes) > LEAF_SIZE) =>
        LET call == Head(stack)
            node == tree'[call.path]
        IN  /\ stack'[1].path = Append(call.path, "L")
            /\ stack'[1].shapes =
                  ReversedSide(call.shapes, node.split_axis, node.split_value, "L")
            /\ stack'[2].path = Append(call.path, "R")
            /\ stack'[2].shapes =
                  ReversedSide(call.shapes, node.split_axis, node.split_value, "R")

(* C12: given at most LEAF_SIZE shapes, KdTree::new builds a single Leaf    *)
(* holding the input shapes, each once and in input order; given more, the  *)
(* root is a Branch, and every branching call hands each child its shapes   *)
(* in the reverse of their order in the parent's list.                      *)
C12_LeafAndChildOrder == []C12_Root /\ [][C12_ChildrenReversed]_vars

\* a built tree whose root is a Branch and whose left child is a Leaf that
\* holds several of the input shapes, but not all, last one first
C12_Witness ==
    /\ pc = "built"
    /\ tree[<<>>].kind = "Branch"
    /\ tree[<<"L">>].kind = "Leaf"
    /\ Len(tree[<<"L">>].data) >= 3
    /\ Len(tree[<<"L">>].data) < Len(shapes)
    /\ \A i \in 1..(Len(tree[<<"L">>].data) - 1) : tree[<<"L">>].data[i] > tree[<<"L">>].data[i + 1]

\* the parameters an interval is probed with: its own ends and every value a
\* shape of the scene gives for the ray
ProbeTs(call) ==
    {call.tmin, call.tmax}
        \cup { ShapeIntersection(shapes[s], ray)[1] :
                 s \in {x \in DOMAIN shapes : ShapeIntersection(shapes[x], ray) # None} }

\* the interval of the call inner admits no parameter the interval of the
\* call outer rejects (an interval with a NaN end admits none)
IntervalWithin(inner, outer) ==
    \A t \in ProbeTs(inner) :
        (FLe(inner.tmin, t) /\ FLe(t, inner.tmax)) =>
            (FLe(outer.tmin, t) /\ FLe(t, outer.tmax))

\* calls[j] is made by the call calls[i]
IsChildCall(i, j) ==
    /\ i < j
    /\ Len(calls[j].path) = Len(calls[i].path) + 1
    /\ IsPrefix(calls[i].path, calls[j].path)

(* C13: a call of Node::intersection over [tmin, tmax] that returns a hit   *)
(* (shape, t) has t within [tmin, tmax], t equal to what the shape's own    *)
(* intersection gives for the ray, and the shape referenced by a leaf of    *)
(* the subtree of the call; every recursive call is made with an interval   *)
(* contained in the interval of its caller; the query returns only t >= 0.  *)
C13_HitWithinInterval ==
    /\ \A i \in DOMAIN calls :
          FoundUnder(calls[i].path) =>
              /\ FLe(calls[i].tmin, result[1].t) /\ FLe(result[1].t, calls[i].tmax)
              /\ ShapeIntersection(shapes[result[1].shape], ray) = Some(result[1].t)
              /\ result[1].shape \in ShapesUnder(calls[i].path)
    /\ \A i, j \in DOMAIN calls :
          IsChildCall(i, j) => IntervalWithin(calls[j], calls[i])
    /\ (pc = "done" /\ result # None) => FGe(result[1].t, F(0))

====
